---- MODULE Spec2Model ----
(***************************************************************************)
(* NumberLine (manim/mobject/number_line.py): tick-range generation, the   *)
(* number <-> point transforms, label placement, and the order in which    *)
(* the constructor and the builder methods assemble the object.            *)
(*                                                                         *)
(* Numbers are exact fixed-point values counted in units of 5e-7, so that  *)
(* the code's tolerance 1e-6 is Eps = 2 units and 1.0 is One units.        *)
(* Quotients (alpha, points, proportions) are exact rationals <<n, d>>.    *)
(* Floating-point rounding is not modelled.                                *)
(***************************************************************************)
EXTENDS Integers, Sequences, FiniteSets, TLC

VARIABLES self, pc, trace, calls, lastCall, rotations

vars == <<self, pc, trace, calls, lastCall, rotations>>

\* the literal 1e-6 of get_tick_range, in units of 5e-7
Eps == 2

\* 1.0 in units of 5e-7
One == 1000000 * Eps

\* ---- bounds of the model ----
\* largest |x_min|, |x_max| (in whole numbers) of the tick-range inputs
MaxAbs == 10
\* largest whole step of the tick-range inputs
MaxStep == 3
\* state-changing method calls (rotate_about_*, add_*) after construction
MaxOps == 2

\* ---------------------------------------------------------------------
\* exact arithmetic helpers
\* ---------------------------------------------------------------------
Abs(a) == IF a < 0 THEN -a ELSE a

RECURSIVE Gcd(_, _)
Gcd(a, b) == IF b = 0 THEN a ELSE Gcd(b, a % b)

\* rational n/d in lowest terms with d > 0
Rat(n, d) ==
    LET s == IF d < 0 THEN -1 ELSE 1
        g == Gcd(Abs(n), Abs(d))
    IN  <<(s * n) \div g, (s * d) \div g>>

RInt(n) == <<n, 1>>
RAdd(a, b) == Rat(a[1] * b[2] + b[1] * a[2], a[2] * b[2])
RSub(a, b) == Rat(a[1] * b[2] - b[1] * a[2], a[2] * b[2])
RMul(a, b) == Rat(a[1] * b[1], a[2] * b[2])
RDiv(a, b) == Rat(a[1] * b[2], a[2] * b[1])

\* points and vectors are pairs of rationals
Pt(x, y) == <<RInt(x), RInt(y)>>
VAdd(p, q) == <<RAdd(p[1], q[1]), RAdd(p[2], q[2])>>
VSub(p, q) == <<RSub(p[1], q[1]), RSub(p[2], q[2])>>
VScale(a, p) == <<RMul(a, p[1]), RMul(a, p[2])>>
dot(p, q) == RAdd(RMul(p[1], q[1]), RMul(p[2], q[2]))

\* ceil(a / b) for b > 0
CeilDiv(a, b) == -((-a) \div b)

\* numpy.arange(start, stop, step): ceil((stop - start) / step) values
\* start + k*step; empty when that count is not positive (step /= 0)
arange(start, stop, step) ==
    LET n == IF step > 0 THEN CeilDiv(stop - start, step)
                         ELSE CeilDiv(start - stop, -step)
    IN  IF n <= 0 THEN <<>> ELSE [k \in 1..n |-> start + (k - 1) * step]

Range(s) == {s[i] : i \in DOMAIN s}

Min(S) == CHOOSE m \in S : \A v \in S : m <= v

RECURSIVE SortedSeq(_)
SortedSeq(S) == IF S = {} THEN <<>>
                ELSE LET m == Min(S) IN <<m>> \o SortedSeq(S \ {m})

\* numpy.unique: the sorted distinct values
unique(s) == SortedSeq(Range(s))

\* numpy.concatenate of two arrays
concatenate(s, t) == s \o t

\* elementwise "* -1"
negated(s) == [i \in DOMAIN s |-> -s[i]]

\* ---------------------------------------------------------------------
\* NumberLine.get_tick_range
\* ---------------------------------------------------------------------
\* np.arange raises ZeroDivisionError for a zero step
get_tick_range_raises(s) == s.x_step = 0

\* mutant: the progression starts at x_min whatever the signs
get_tick_range_from_min(s) ==
    arange(s.x_min, IF s.include_tip THEN s.x_max ELSE s.x_max + Eps, s.x_step)

\* mutant: exclude_origin_tick is not read
get_tick_range_keep_origin(s) ==
    LET x_max == IF s.include_tip THEN s.x_max ELSE s.x_max + Eps
    IN  IF (s.x_min < x_max /\ x_max < 0) \/ (s.x_max > s.x_min /\ s.x_min > 0)
        THEN arange(s.x_min, x_max, s.x_step)
        ELSE unique(concatenate(negated(arange(0, Abs(s.x_min) + Eps, s.x_step)),
                                arange(0, x_max, s.x_step)))

\* mutant: the two segments are concatenated without np.unique
get_tick_range_no_unique(s) ==
    LET x_max == IF s.include_tip THEN s.x_max ELSE s.x_max + Eps
        start_point == IF s.exclude_origin_tick THEN s.x_step ELSE 0
    IN  IF (s.x_min < x_max /\ x_max < 0) \/ (s.x_max > s.x_min /\ s.x_min > 0)
        THEN arange(s.x_min, x_max, s.x_step)
        ELSE concatenate(negated(arange(start_point, Abs(s.x_min) + Eps, s.x_step)),
                         arange(start_point, x_max, s.x_step))

get_tick_range(s) ==
    LET x_max == IF s.include_tip THEN s.x_max ELSE s.x_max + Eps
        start_point == IF s.exclude_origin_tick THEN s.x_step ELSE 0
        x_min_segment == negated(arange(start_point, Abs(s.x_min) + Eps, s.x_step))
        x_max_segment == arange(start_point, x_max, s.x_step)
    IN  IF (s.x_min < x_max /\ x_max < 0) \/ (s.x_max > s.x_min /\ s.x_min > 0)
        THEN arange(s.x_min, x_max, s.x_step)
        ELSE unique(concatenate(x_min_segment, x_max_segment))

\* ---------------------------------------------------------------------
\* the drawable segment (Line) NumberLine derives from
\* ---------------------------------------------------------------------
RIGHT == <<1, 0>>
LEFT == <<-1, 0>>
UP == <<0, 1>>
DOWN == <<0, -1>>
\* "direction=None"
NoDirection == <<0, 0>>

NaN == <<0, 0>>

get_start(s) == s.start
get_end(s) == s.end
get_start_and_end(s) == <<get_start(s), get_end(s)>>

midpoint(p, q) == VScale(<<1, 2>>, VAdd(p, q))

\* Euclidean norm of a vector parallel to a coordinate axis (the only
\* vectors that arise: rotations are by quarter turns)
get_norm(v) == <<Abs(v[1][1]) * v[2][2] + Abs(v[2][1]) * v[1][2], v[1][2] * v[2][2]>>

get_length(s) == get_norm(VSub(get_end(s), get_start(s)))

\* Line.get_angle, in quarter turns; 0 for a segment of no length
get_angle(s) ==
    LET v == VSub(get_end(s), get_start(s))
    IN  CASE v[2][1] > 0 -> 1
          [] v[2][1] = 0 /\ v[1][1] < 0 -> 2
          [] v[2][1] < 0 -> 3
          [] OTHER -> 0

\* space_ops.normalize: the zero vector for a zero vector
normalize(v) ==
    LET n == get_norm(v)
    IN  IF n[1] = 0 THEN Pt(0, 0)
        ELSE <<RDiv(v[1], Rat(n[1], n[2])), RDiv(v[2], Rat(n[1], n[2]))>>

\* simple_functions.fdiv: numpy true division, 0/0 gives nan
fdiv(a, b) == IF b[1] = 0 THEN NaN ELSE RDiv(a, b)

\* bezier.interpolate on points and on numbers: (1 - alpha)*a + alpha*b
interpolate(a, b, alpha) == VAdd(VScale(RSub(RInt(1), alpha), a), VScale(alpha, b))
interpolate_num(a, b, alpha) ==
    IF alpha = NaN THEN NaN
    ELSE RAdd(RMul(RSub(RInt(1), alpha), RInt(a)), RMul(alpha, RInt(b)))

\* a point turned by `quarters` quarter turns (counter-clockwise) about `about`
RECURSIVE rotate_point(_, _, _)
rotate_point(p, quarters, about) ==
    IF quarters = 0 THEN p
    ELSE LET d == VSub(p, about)
         IN  rotate_point(VAdd(about, <<RSub(RInt(0), d[2]), d[1]>>), quarters - 1, about)

scale_point(p, factor, about) == VAdd(about, VScale(factor, VSub(p, about)))

\* the point moves the segment can undergo: a quarter-turn rotation about a
\* point, a scaling about a point, a shift
apply_move(p, mv) ==
    CASE mv.op = "rotate" -> rotate_point(p, mv.quarters, mv.about)
      [] mv.op = "scale" -> scale_point(p, mv.factor, mv.about)
      [] mv.op = "shift" -> VAdd(p, mv.by)

map_item(it, mv) ==
    [it EXCEPT !.at = apply_move(it.at, mv),
               !.angle = IF mv.op = "rotate" THEN (@ + mv.quarters) % 4 ELSE @]

map_group(g, mv) == [g EXCEPT !.items = [i \in DOMAIN g.items |-> map_item(g.items[i], mv)]]

\* a move of the segment and of everything it owns
map_points(s, mv) ==
    [s EXCEPT !.start = apply_move(s.start, mv), !.end = apply_move(s.end, mv),
              !.submobjects = [i \in DOMAIN s.submobjects |-> map_group(s.submobjects[i], mv)]]

\* Mobject.rotate(angle, about_point): default pivot is the object's centre
rotate(s, quarters, about) ==
    map_points(s, [op |-> "rotate", quarters |-> quarters, about |-> about])

\* Mobject.scale(factor) about the centre
scale(s, factor) ==
    map_points(s, [op |-> "scale", factor |-> factor, about |-> midpoint(s.start, s.end)])

\* Line.set_length(length): scale so that get_length() = length
set_length(s, length) == scale(s, RDiv(RInt(length), get_length(s)))

\* Mobject.center(): move the centre to the origin
center(s) ==
    map_points(s, [op |-> "shift", by |-> VSub(Pt(0, 0), midpoint(s.start, s.end))])

\* Mobject.add(group): append a new child
add(s, kind, items) ==
    [s EXCEPT !.submobjects = Append(@, [id |-> s.next_id, kind |-> kind, items |-> items]),
              !.next_id = @ + 1]

\* TipableVMobject.add_tip(): the arrowhead sits at the segment's end
add_tip(s) ==
    add([s EXCEPT !.has_tip = TRUE], "tip",
        <<[x |-> s.x_max, at |-> s.end, kind |-> "tip", size |-> 0, angle |-> get_angle(s),
           direction |-> NoDirection, shifted |-> FALSE]>>)

\* ---------------------------------------------------------------------
\* NumberLine: the transforms
\* ---------------------------------------------------------------------
\* float(..) / (x_max - x_min) raises ZeroDivisionError on a zero width
number_to_point_raises(s) == s.x_max = s.x_min

\* mutant: alpha taken from the number itself, not from its offset to x_min
number_to_point_no_offset(s, number) ==
    interpolate(get_start(s), get_end(s), Rat(number, s.x_max - s.x_min))

number_to_point(s, number) ==
    LET alpha == Rat(number - s.x_min, s.x_max - s.x_min)
    IN  interpolate(get_start(s), get_end(s), alpha)

point_to_number(s, point) ==
    LET se == get_start_and_end(s)
        unit_vect == normalize(VSub(se[2], se[1]))
        proportion == fdiv(dot(VSub(point, se[1]), unit_vect),
                           dot(VSub(se[2], se[1]), unit_vect))
    IN  interpolate_num(s.x_min, s.x_max, proportion)

n2p(s, number) == number_to_point(s, number)
p2n(s, point) == point_to_number(s, point)

get_unit_size(s) == RDiv(get_length(s), RInt(s.x_max - s.x_min))

rotate_about_number(s, number, quarters) == rotate(s, quarters, n2p(s, number))
rotate_about_zero(s, quarters) == rotate_about_number(s, 0, quarters)

\* ---------------------------------------------------------------------
\* NumberLine: ticks and labels
\* ---------------------------------------------------------------------
InSeq(x, seq) == \E i \in DOMAIN seq : seq[i] = x

\* get_tick: a segment of half-length `size`, turned by the line's angle and
\* moved to number_to_point(x)
\* mutant: the tick is left where Line(size*DOWN, size*UP) builds it
get_tick_not_moved(s, x, size) ==
    [x |-> x, at |-> Pt(0, 0), kind |-> "tick", size |-> size, angle |-> get_angle(s),
     direction |-> NoDirection, shifted |-> FALSE]

get_tick(s, x, size) ==
    [x |-> x, at |-> number_to_point(s, x), kind |-> "tick", size |-> size,
     angle |-> get_angle(s),
     direction |-> NoDirection, shifted |-> FALSE]

add_ticks_raises(s) ==
    \/ get_tick_range_raises(s)
    \/ get_tick_range(s) /= <<>> /\ number_to_point_raises(s)

\* mutant: the new ticks replace the group an earlier call added
add_ticks_replacing(s) ==
    LET xs == get_tick_range(s)
        ticks == [i \in DOMAIN xs |->
                    [x |-> xs[i], at |-> number_to_point(s, xs[i]), kind |-> "tick",
                     size |-> s.tick_size, angle |-> get_angle(s),
                     direction |-> NoDirection, shifted |-> FALSE]]
        kept == SelectSeq(s.submobjects, LAMBDA g : g.kind /= "ticks")
        t == add([s EXCEPT !.submobjects = kept], "ticks", ticks)
    IN  [t EXCEPT !.ticks = s.next_id]

add_ticks(s) ==
    LET elongated_tick_size == s.tick_size * s.longer_tick_multiple
        xs == get_tick_range(s)
        ticks == [i \in DOMAIN xs |->
                    get_tick(s, xs[i],
                             IF InSeq(xs[i], s.numbers_with_elongated_ticks)
                             THEN elongated_tick_size ELSE s.tick_size)]
        t == add(s, "ticks", ticks)
    IN  [t EXCEPT !.ticks = s.next_id]

\* get_number_mobject(x, direction): a DecimalNumber placed next to
\* number_to_point(x); `shifted` records the half-glyph shift to the left.
\* (buff only scales the offset along `direction` and is left out.)
get_number_mobject(s, x, direction) ==
    LET dir == IF direction = NoDirection THEN s.label_direction ELSE direction
    IN  [x |-> x, at |-> number_to_point(s, x), kind |-> "DecimalNumber", size |-> 0,
         angle |-> 0,
         direction |-> dir,
         shifted |-> (x < 0 /\ s.label_direction[1] = 0)]

\* x_values = <<>> with given = FALSE stands for x_values=None
numbers_x_values(s, given, x_values) == IF given THEN x_values ELSE get_tick_range(s)

add_numbers_raises(s, given, x_values, excluding) ==
    \/ ~given /\ get_tick_range_raises(s)
    \/ /\ number_to_point_raises(s)
       /\ \E i \in DOMAIN numbers_x_values(s, given, x_values) :
              ~InSeq(numbers_x_values(s, given, x_values)[i], excluding)

add_numbers(s, given, x_values, excluding) ==
    LET xs == SelectSeq(numbers_x_values(s, given, x_values),
                        LAMBDA x : ~InSeq(x, excluding))
        numbers == [i \in DOMAIN xs |-> get_number_mobject(s, xs[i], NoDirection)]
        t == add(s, "numbers", numbers)
    IN  [t EXCEPT !.numbers = s.next_id]

\* create_label_tex: float/int -> MathTex, str -> Tex, anything else as is
create_label_tex(content) ==
    CASE content = "number" -> "MathTex"
      [] content = "str" -> "Tex"
      [] OTHER -> content

add_labels_raises(s, dict_values) == dict_values /= <<>> /\ number_to_point_raises(s)

\* dict_values: a sequence of <<x, content>> pairs
add_labels(s, dict_values, direction) ==
    LET dir == IF direction = NoDirection THEN s.label_direction ELSE direction
        labels == [i \in DOMAIN dict_values |->
                     [x |-> dict_values[i][1], at |-> number_to_point(s, dict_values[i][1]),
                      kind |-> create_label_tex(dict_values[i][2]), size |-> 0, angle |-> 0,
                      direction |-> dir, shifted |-> FALSE]]
        t == [s EXCEPT !.labels = s.next_id]
    IN  add(t, "labels", labels)

\* ---------------------------------------------------------------------
\* NumberLine.__init__, step by step
\* ---------------------------------------------------------------------
\* super().__init__(x_min * RIGHT, x_max * RIGHT) and the scaling that follows
init_segment(s) ==
    LET line == [s EXCEPT !.start = Pt(s.x_min, 0), !.end = Pt(s.x_max, 0)]
    IN  IF s.length /= 0
        THEN LET l == set_length(line, s.length)
             IN  [l EXCEPT !.unit_size = get_unit_size(l)]
        ELSE scale(line, s.unit_size)

init_tip(s) == IF s.include_tip THEN add_tip(s) ELSE s

init_ticks(s) == IF s.include_ticks THEN add_ticks(s) ELSE s

init_rotate(s) == rotate(s, s.rotation, midpoint(s.start, s.end))

init_wants_numbers(s) == s.include_numbers \/ s.numbers_to_include_given

init_numbers(s) ==
    IF init_wants_numbers(s)
    THEN add_numbers(s, s.numbers_to_include_given, s.numbers_to_include, s.numbers_to_exclude)
    ELSE s

\* ---------------------------------------------------------------------
\* state
\* ---------------------------------------------------------------------
\* the fields __init__ assigns before it builds the segment
NumberLine(x_min, x_max, x_step, length, unit_size, include_ticks, include_tip, exclude_origin_tick, rotation, include_numbers, label_direction, given, numbers_to_include) ==
    [x_min |-> x_min, x_max |-> x_max, x_step |-> x_step,
     length |-> length, unit_size |-> RInt(unit_size),
     include_ticks |-> include_ticks, tick_size |-> One \div 10,
     numbers_with_elongated_ticks |-> <<0, One>>, longer_tick_multiple |-> 2,
     exclude_origin_tick |-> exclude_origin_tick, rotation |-> rotation,
     include_tip |-> include_tip, include_numbers |-> include_numbers,
     label_direction |-> label_direction, numbers_to_exclude |-> <<>>,
     numbers_to_include_given |-> given, numbers_to_include |-> numbers_to_include,
     start |-> Pt(0, 0), end |-> Pt(0, 0), has_tip |-> FALSE,
     submobjects |-> <<>>, next_id |-> 1,
     ticks |-> 0, numbers |-> 0, labels |-> 0]

NoCall ==
    [op |-> "none", x |-> 0, direction |-> NoDirection, shifted |-> FALSE,
     num |-> NaN, ticks |-> <<>>, prev |-> <<>>, count |-> 0]

\* inputs of the tick-range specification: whole numbers, and values one
\* unit (5e-7) off them, so that some fall inside the 1e-6 tolerance
TickX == {k * One + d : k \in -MaxAbs..MaxAbs, d \in {-1, 0}}
TickSteps == {k * One + d : k \in 1..MaxStep, d \in {0, 1}}

TickConfigs ==
    {NumberLine(lo, hi, st, 0, 1, TRUE, tip, ex, 0, FALSE, DOWN, FALSE, <<>>) :
        lo \in TickX, hi \in TickX, st \in TickSteps, tip \in BOOLEAN, ex \in BOOLEAN}

\* inputs of the construction specification
LineX == {-2 * One, One}
LineSteps == {-One, 0, One}
\* <<length (0: not given), unit_size, rotation in quarter turns>>
LineShapes == {<<0, 2, 0>>, <<0, 1, 1>>, <<12 * One, 1, 1>>}
LineDirections == {DOWN, RIGHT}
ArgDirections == {NoDirection, DOWN, RIGHT}
LineNumbers == <<-One, One>>
LineLabels == << <<-One, "number">>, <<One, "str">> >>
QueryNumbers == {-2 * One, -One, 0, One \div 2, One}

LineConfigs ==
    {NumberLine(lo, hi, st, sh[1], sh[2], ticks, tip, FALSE, sh[3], nums, dir, given,
                IF given THEN LineNumbers ELSE <<>>) :
        lo \in LineX, hi \in LineX, st \in LineSteps, sh \in LineShapes,
        ticks \in BOOLEAN, tip \in BOOLEAN, nums \in BOOLEAN,
        dir \in LineDirections, given \in BOOLEAN}

\* ---------------------------------------------------------------------
\* construction: NumberLine.__init__
\* ---------------------------------------------------------------------
Init ==
    /\ self \in LineConfigs
    /\ self.x_min <= self.x_max
    \* a configured length on a zero-width interval makes numpy scale by
    \* length/0; that geometry is not modelled
    /\ self.length /= 0 => self.x_min < self.x_max
    \* include_numbers makes no difference when numbers_to_include is given
    /\ self.numbers_to_include_given => ~self.include_numbers
    /\ pc = "init"
    /\ trace = <<>>
    /\ calls = <<>>
    /\ lastCall = NoCall
    /\ rotations = 0

CtorSegment ==
    /\ pc = "init"
    /\ self' = init_segment(self)
    /\ pc' = "segment"
    /\ trace' = Append(trace, "segment")
    /\ UNCHANGED <<calls, lastCall, rotations>>

CtorCenter ==
    /\ pc = "segment"
    /\ self' = center(self)
    /\ pc' = "centered"
    /\ trace' = Append(trace, "center")
    /\ UNCHANGED <<calls, lastCall, rotations>>

CtorTip ==
    /\ pc = "centered"
    /\ self' = init_tip(self)
    /\ pc' = "tip"
    /\ trace' = IF self.include_tip THEN Append(trace, "tip") ELSE trace
    /\ UNCHANGED <<calls, lastCall, rotations>>

CtorTicks ==
    /\ pc = "tip"
    /\ IF self.include_ticks /\ add_ticks_raises(self)
       THEN /\ pc' = "raised"
            /\ UNCHANGED <<self, trace, calls>>
       ELSE /\ self' = init_ticks(self)
            /\ pc' = "ticks"
            /\ trace' = IF self.include_ticks THEN Append(trace, "ticks") ELSE trace
            /\ calls' = IF self.include_ticks THEN Append(calls, "ticks") ELSE calls
    /\ UNCHANGED <<lastCall, rotations>>

CtorRotate ==
    /\ pc = "ticks"
    /\ self' = init_rotate(self)
    /\ pc' = "rotated"
    /\ trace' = Append(trace, "rotate")
    /\ UNCHANGED <<calls, lastCall, rotations>>

CtorNumbers ==
    /\ pc = "rotated"
    /\ IF /\ init_wants_numbers(self)
          /\ add_numbers_raises(self, self.numbers_to_include_given,
                                self.numbers_to_include, self.numbers_to_exclude)
       THEN /\ pc' = "raised"
            /\ UNCHANGED <<self, trace, calls>>
       ELSE /\ self' = init_numbers(self)
            /\ pc' = "done"
            /\ trace' = IF init_wants_numbers(self) THEN Append(trace, "numbers") ELSE trace
            /\ calls' = IF init_wants_numbers(self) THEN Append(calls, "numbers") ELSE calls
    /\ UNCHANGED <<lastCall, rotations>>

\* ---------------------------------------------------------------------
\* the constructed object's methods
\* ---------------------------------------------------------------------
\* completed add_ticks / add_numbers / add_labels calls made by the user
UserCalls == Len(calls) - Len(SelectSeq(trace, LAMBDA st : st \in {"ticks", "numbers"}))

\* Another state-changing call may be made while fewer than MaxOps were made;
\* the value a query returned is looked at where the run ends.
CanChange == pc = "done" /\ UserCalls + rotations < MaxOps /\ lastCall = NoCall

\* a call that raises leaves the object as it was
RotateAboutNumber ==
    /\ CanChange
    /\ ~number_to_point_raises(self)
    /\ \E number \in {One} :
          self' = rotate_about_number(self, number, 1)
    /\ rotations' = rotations + 1
    /\ UNCHANGED <<pc, trace, calls, lastCall>>

RotateAboutZero ==
    /\ CanChange
    /\ ~number_to_point_raises(self)
    /\ self' = rotate_about_zero(self, 1)
    /\ rotations' = rotations + 1
    /\ UNCHANGED <<pc, trace, calls, lastCall>>

AddTicks ==
    /\ CanChange
    /\ ~add_ticks_raises(self)
    /\ self' = add_ticks(self)
    /\ calls' = Append(calls, "ticks")
    /\ UNCHANGED <<pc, trace, lastCall, rotations>>

AddNumbers ==
    /\ CanChange
    /\ \E given \in BOOLEAN :
          LET x_values == IF given THEN LineNumbers ELSE <<>>
          IN  /\ ~add_numbers_raises(self, given, x_values, self.numbers_to_exclude)
              /\ self' = add_numbers(self, given, x_values, self.numbers_to_exclude)
    /\ calls' = Append(calls, "numbers")
    /\ UNCHANGED <<pc, trace, lastCall, rotations>>

AddLabels ==
    /\ CanChange
    /\ ~add_labels_raises(self, LineLabels)
    /\ \E direction \in {UP} :
          self' = add_labels(self, LineLabels, direction)
    /\ calls' = Append(calls, "labels")
    /\ UNCHANGED <<pc, trace, lastCall, rotations>>

GetNumberMobject ==
    /\ pc = "done"
    /\ lastCall = NoCall
    /\ ~number_to_point_raises(self)
    /\ \E x \in {-One, One}, direction \in ArgDirections :
          LET num_mob == get_number_mobject(self, x, direction)
          IN  lastCall' = [NoCall EXCEPT !.op = "get_number_mobject", !.x = x,
                                         !.direction = num_mob.direction,
                                         !.shifted = num_mob.shifted]
    /\ UNCHANGED <<self, pc, trace, calls, rotations>>

\* p2n(n2p(x)) for a number of the interval
RoundTrip ==
    /\ pc = "done"
    /\ lastCall = NoCall
    /\ ~number_to_point_raises(self)
    /\ \E x \in QueryNumbers :
          /\ self.x_min <= x /\ x <= self.x_max
          /\ lastCall' = [NoCall EXCEPT !.op = "round_trip", !.x = x,
                                        !.num = p2n(self, n2p(self, x))]
    /\ UNCHANGED <<self, pc, trace, calls, rotations>>

Next ==
    \/ CtorSegment
    \/ CtorCenter
    \/ CtorTip
    \/ CtorTicks
    \/ CtorRotate
    \/ CtorNumbers
    \/ RotateAboutNumber
    \/ RotateAboutZero
    \/ AddTicks
    \/ AddNumbers
    \/ AddLabels
    \/ GetNumberMobject
    \/ RoundTrip

Spec == Init /\ [][Next]_vars

\* ---------------------------------------------------------------------
\* get_tick_range as a pure function of the configuration
\* ---------------------------------------------------------------------
InitTicks ==
    /\ self \in TickConfigs
    /\ self.x_min <= self.x_max
    /\ pc = "pure"
    /\ trace = <<>>
    /\ calls = <<>>
    /\ lastCall = NoCall
    /\ rotations = 0

CallGetTickRange ==
    /\ pc = "pure"
    /\ lastCall.count < 2
    /\ lastCall' = [NoCall EXCEPT !.op = "get_tick_range",
                                  !.ticks = get_tick_range(self),
                                  !.prev = lastCall.ticks,
                                  !.count = lastCall.count + 1]
    /\ UNCHANGED <<self, pc, trace, calls, rotations>>

NextTicks == CallGetTickRange

SpecTicks == InitTicks /\ [][NextTicks]_vars

\* ---------------------------------------------------------------------
\* properties of get_tick_range (checked under SpecTicks)
\* ---------------------------------------------------------------------
TicksReturned == lastCall.op = "get_tick_range"

\* the multiples of the step that satisfy `within`
Multiples(s, within(_)) ==
    {v \in {k * s.x_step : k \in ((s.x_min - Eps) \div s.x_step) - 1 ..
                                 ((s.x_max + Eps) \div s.x_step) + 1} : within(v)}

IsSetInOrder(seq, S) == Range(seq) = S /\ Len(seq) = Cardinality(S)

Straddling == self.x_min <= 0 /\ 0 <= self.x_max

C1_Case == TicksReturned /\ Straddling /\ ~self.include_tip /\ ~self.exclude_origin_tick

\* C1 as stated: on a straddling interval without tip and with the origin
\* tick, the ticks are exactly the multiples of the step in [x_min, x_max].
C1_TicksAreMultiplesInInterval ==
    C1_Case =>
        IsSetInOrder(lastCall.ticks,
                     Multiples(self, LAMBDA v : self.x_min <= v /\ v <= self.x_max))

\* C1 amended: on a straddling interval without tip and with the origin tick,
\* the ticks are exactly the multiples of the step strictly between
\* x_min - 1e-6 and x_max + 1e-6, each once.
C1_TicksAreMultiplesWithinTolerance ==
    C1_Case =>
        IsSetInOrder(lastCall.ticks,
                     Multiples(self, LAMBDA v : self.x_min - Eps < v /\ v < self.x_max + Eps))

\* [-10, 10, 2] gives the eleven ticks -10, -8, ..., 10
C1_Witness ==
    /\ C1_Case
    /\ self.x_min = -10 * One /\ self.x_max = 10 * One /\ self.x_step = 2 * One
    /\ lastCall.ticks = [i \in 1..11 |-> (2 * i - 12) * One]

SameSign ==
    \/ 0 < self.x_min /\ self.x_min < self.x_max
    \/ self.x_min < self.x_max /\ self.x_max < 0

\* C2: on a same-sign interval without tip the ticks are anchored at x_min,
\* not at zero: there is a first tick, it is x_min, and the k-th tick after
\* it is x_min + k*x_step.
C2_SameSignAnchoredAtMin ==
    (TicksReturned /\ SameSign /\ ~self.include_tip) =>
        LET ticks == lastCall.ticks
        IN  /\ ticks /= <<>>
            /\ \A i \in DOMAIN ticks : ticks[i] = self.x_min + (i - 1) * self.x_step

C3_Case == TicksReturned /\ Straddling /\ self.exclude_origin_tick

\* C3: with exclude_origin_tick on an interval containing zero, the ticks
\* never contain 0 and are the ticks computed without the option, less 0.
C3_OriginExcluded ==
    C3_Case =>
        /\ ~InSeq(0, lastCall.ticks)
        /\ lastCall.ticks =
              SelectSeq(get_tick_range([self EXCEPT !.exclude_origin_tick = FALSE]),
                        LAMBDA v : v /= 0)

\* [-4, 4, 2] with exclude_origin_tick gives -4, -2, 2, 4
C3_Witness ==
    /\ C3_Case
    /\ self.x_min = -4 * One /\ self.x_max = 4 * One /\ self.x_step = 2 * One
    /\ ~self.include_tip
    /\ lastCall.ticks = <<-4 * One, -2 * One, 2 * One, 4 * One>>

\* C4: with a tip no tick lies at or beyond x_max, and the negative-going
\* side still reaches x_min when x_min is a multiple of the step.
C4_NoTickAtOrBeyondTip ==
    (TicksReturned /\ self.include_tip /\ self.x_min < self.x_max) =>
        /\ \A i \in DOMAIN lastCall.ticks : lastCall.ticks[i] < self.x_max
        /\ (Straddling /\ self.x_min % self.x_step = 0
              /\ ~(self.exclude_origin_tick /\ self.x_min = 0))
             => InSeq(self.x_min, lastCall.ticks)

IsStrictlyAscending(seq) == \A i \in 1..(Len(seq) - 1) : seq[i] < seq[i + 1]

\* C5: get_tick_range returns a strictly ascending sequence, returns the same
\* sequence on every call, and leaves the NumberLine unchanged.
C5_AscendingAndRepeatable ==
    /\ [](TicksReturned =>
            /\ IsStrictlyAscending(lastCall.ticks)
            /\ lastCall.count >= 2 => lastCall.ticks = lastCall.prev)
    /\ [][self' = self]_vars

\* a second call on a straddling interval returned the same several ticks
C5_Witness ==
    /\ TicksReturned
    /\ lastCall.count = 2
    /\ Straddling /\ self.x_min < 0 /\ 0 < self.x_max
    /\ Len(lastCall.ticks) >= 3
    /\ lastCall.ticks = lastCall.prev

\* ---------------------------------------------------------------------
\* properties of the constructed object (checked under Spec)
\* ---------------------------------------------------------------------
\* C6: for x in [x_min, x_max] of a constructed NumberLine with
\* x_min < x_max, point_to_number(number_to_point(x)) is x, whatever the
\* unit_size, length and rotation, and after rotate_about_* calls.
C6_RoundTrip ==
    (lastCall.op = "round_trip" /\ self.x_min < self.x_max) =>
        lastCall.num = RInt(lastCall.x)

\* a number strictly inside the interval, on a line built with a length and
\* a rotation and turned once more about a number
C6_Witness ==
    /\ lastCall.op = "round_trip"
    /\ self.x_min < lastCall.x /\ lastCall.x < self.x_max /\ lastCall.x /= 0
    /\ self.length /= 0 /\ self.rotation = 1 /\ rotations >= 1
    /\ lastCall.num = RInt(lastCall.x)

\* C7: no NumberLine with x_max = x_min or x_step <= 0 is ever returned by
\* the constructor.
C7_InvalidIntervalRejected ==
    pc = "done" => (self.x_min /= self.x_max /\ self.x_step > 0)

\* C8: a number label is shifted left by half its leading glyph exactly when
\* x < 0 and the direction used to place it has no horizontal component.
C8_ShiftIffNegativeAndVertical ==
    lastCall.op = "get_number_mobject" =>
        (lastCall.shifted <=> (lastCall.x < 0 /\ lastCall.direction[1] = 0))

StepOrder == <<"segment", "center", "tip", "ticks", "rotate", "numbers">>
StepIndex(st) == CHOOSE i \in DOMAIN StepOrder : StepOrder[i] = st

Groups == SelectSeq(self.submobjects, LAMBDA g : g.kind /= "tip")
GroupsOfKind(kind) == SelectSeq(self.submobjects, LAMBDA g : g.kind = kind)

\* every tick, tip and label sits where the line's current geometry puts
\* it, and the ticks are turned as the line is
AllPlacedOnLine ==
    \A i \in DOMAIN self.submobjects :
        \A j \in DOMAIN self.submobjects[i].items :
            LET it == self.submobjects[i].items[j]
            IN  /\ it.at = IF it.kind = "tip" THEN get_end(self)
                           ELSE number_to_point(self, it.x)
                /\ it.kind = "tick" => it.angle = get_angle(self)

\* C9: the constructor runs its steps at most once each, in the order
\* segment, center, tip, ticks, rotate, numbers (the optional ones only when
\* configured); in the finished object every tick is centred on
\* number_to_point of its number, as are the tip on the end and the labels.
C9_ConstructionOrder ==
    /\ \A i, j \in DOMAIN trace : i < j => StepIndex(trace[i]) < StepIndex(trace[j])
    /\ pc = "done" =>
          /\ Range(trace) = {"segment", "center", "rotate"}
                \cup (IF self.include_tip THEN {"tip"} ELSE {})
                \cup (IF self.include_ticks THEN {"ticks"} ELSE {})
                \cup (IF init_wants_numbers(self) THEN {"numbers"} ELSE {})
          /\ AllPlacedOnLine

\* a rotated line with tip, three or more ticks and number labels
C9_Witness ==
    /\ pc = "done"
    /\ trace = StepOrder
    /\ self.rotation = 1
    /\ self.ticks /= 0
    /\ \E i \in DOMAIN self.submobjects :
          /\ self.submobjects[i].id = self.ticks
          /\ Len(self.submobjects[i].items) >= 3
          /\ \E j \in DOMAIN self.submobjects[i].items :
                self.submobjects[i].items[j].at[1] /= RInt(0)

LastIdOfKind(kind) ==
    LET gs == GroupsOfKind(kind) IN IF gs = <<>> THEN 0 ELSE gs[Len(gs)].id

\* C10: every completed add_ticks / add_numbers / add_labels call appended
\* one new group and removed none, and the attributes ticks, numbers and
\* labels each name the group of the latest call of their kind.
C10_BuildersOnlyAppend ==
    /\ Len(Groups) = Len(calls)
    /\ \A i \in DOMAIN Groups : Groups[i].kind = calls[i]
    /\ \A i, j \in DOMAIN self.submobjects :
          i /= j => self.submobjects[i].id /= self.submobjects[j].id
    /\ self.ticks = LastIdOfKind("ticks")
    /\ self.numbers = LastIdOfKind("numbers")
    /\ self.labels = LastIdOfKind("labels")

\* two tick groups and both a numbers and a labels group are owned
C10_Witness ==
    /\ pc = "done"
    /\ Len(GroupsOfKind("ticks")) = 2
    /\ self.ticks = GroupsOfKind("ticks")[2].id
    /\ self.numbers /= 0 /\ self.labels /= 0 /\ self.numbers /= self.labels
    /\ Len(calls) = 4

====
